---- MODULE Spec2Model ----
(***************************************************************************)
(* Model of the time-series analytics and charting code of kabu-bunseki:   *)
(*   StockChart.tsx        StockChart, CandlestickChart, VolumeChart       *)
(*   analysis/[code]/page.tsx   formatAmount, the financial summary panel  *)
(*                                                                         *)
(* JavaScript numbers are modelled as exact extended rationals: a finite   *)
(* number is [t |-> "number", n, d] in lowest terms with d > 0; NaN and    *)
(* the two infinities are values of their own; null is a value of its own. *)
(* The sign of zero is not modelled (-0 and 0 are the same value, as they  *)
(* are under === ).                                                        *)
(***************************************************************************)
EXTENDS Integers, Sequences, FiniteSets, TLC

VARIABLES
    \* StockChart: the stockPrices prop and the three useState cells
    stockPrices, chartType, showMA, showVolume,
    \* one call of calculateMA: its arguments and what it returned
    prices, period, maResult,
    \* one call of formatAmount: its argument and the string it returned
    value, formatted,
    \* AnalysisPage: the statements the backend holds and the useState cells the
    \* financial-summary response is stored in
    statements, financialSummary, latestFiscalYear, financialDataPoints,
    \* where the caller of a function under study stands: "call" or "done"
    pc,
    \* CompanySearch: its useState cells (a record), the timers set by the
    \* debounce effect, the searchCompanies requests awaiting their response,
    \* the number of requests issued, the time the query has stayed unchanged,
    \* and the argument of the latest searchCompanies call
    search, timers, requests, issued, unchangedFor, debounced,
    \* AnalysisPage: its other useState cells (a record), the session of
    \* useAuth, the runs of loadData under way, the toggleWatchlist requests
    \* awaiting their response and how the latest one ended, where
    \* checkWatchlistStatus stands, how the requests of the run of loadData
    \* that ended last ended, where fetchFinancialData stands, and the number
    \* of reload timers it has set that have not fired
    page, session, loadPc, togglePc, checkPc, outcome, fetchPc, reloads

chartVars == <<stockPrices, chartType, showMA, showVolume>>
maVars == <<prices, period, maResult>>
fmtVars == <<value, formatted>>
finVars == <<statements, financialSummary, latestFiscalYear, financialDataPoints>>
searchVars == <<search, timers, requests, issued, unchangedFor, debounced>>
pageVars == <<page, session, loadPc, togglePc, checkPc, outcome, fetchPc, reloads>>
vars == <<chartVars, maVars, fmtVars, finVars, pc, searchVars, pageVars>>

-----------------------------------------------------------------------------
(* JavaScript values *)

null == [t |-> "null"]
NaN == [t |-> "NaN"]
Infinity == [t |-> "Infinity", s |-> 1]
NegInfinity == [t |-> "Infinity", s |-> -1]

Abs(i) == IF i < 0 THEN -i ELSE i
Sgn(i) == IF i < 0 THEN -1 ELSE IF i = 0 THEN 0 ELSE 1

RECURSIVE GCD(_, _)
GCD(a, b) == IF b = 0 THEN a ELSE GCD(b, a % b)

\* the finite number n/d (d # 0), in lowest terms
Q(n, d) ==
    LET g == GCD(Abs(n), Abs(d))
    IN  [t |-> "number", n |-> (Sgn(d) * n) \div g, d |-> Abs(d) \div g]

Num(i) == [t |-> "number", n |-> i, d |-> 1]

IsFinite(x) == x.t = "number"
IsInf(x) == x.t = "Infinity"
IsNumeric(x) == x.t \in {"number", "NaN", "Infinity"}
SignOf(x) == IF IsInf(x) THEN x.s ELSE Sgn(x.n)
Inf(s) == [t |-> "Infinity", s |-> s]

\* a + b
Add(a, b) ==
    IF IsFinite(a) /\ IsFinite(b)
    THEN (IF a.d = 1 /\ b.d = 1 THEN Num(a.n + b.n)
          ELSE LET g == GCD(a.d, b.d)
               IN  Q(a.n * (b.d \div g) + b.n * (a.d \div g), (a.d \div g) * b.d))
    ELSE IF a = NaN \/ b = NaN THEN NaN
    ELSE IF IsInf(a) /\ IsInf(b) THEN (IF a.s = b.s THEN a ELSE NaN)
    ELSE IF IsInf(a) THEN a
    ELSE b

Neg(a) ==
    IF IsFinite(a) THEN [t |-> "number", n |-> -a.n, d |-> a.d]
    ELSE IF a = NaN THEN NaN
    ELSE Inf(-a.s)

\* a - b
Sub(a, b) == Add(a, Neg(b))

\* a * b
Mul(a, b) ==
    IF IsFinite(a) /\ IsFinite(b)
    THEN (IF a.d = 1 /\ b.d = 1 THEN Num(a.n * b.n)
          ELSE LET g1 == GCD(Abs(a.n), b.d)
                   g2 == GCD(Abs(b.n), a.d)
               IN  Q((a.n \div g1) * (b.n \div g2), (a.d \div g2) * (b.d \div g1)))
    ELSE IF a = NaN \/ b = NaN THEN NaN
    ELSE IF SignOf(a) = 0 \/ SignOf(b) = 0 THEN NaN
    ELSE Inf(SignOf(a) * SignOf(b))

\* a / b
Div(a, b) ==
    IF IsFinite(a) /\ IsFinite(b)
    THEN (IF b.n # 0
          THEN LET g1 == GCD(Abs(a.n), Abs(b.n))
                   g2 == GCD(b.d, a.d)
               IN  Q((a.n \div g1) * (b.d \div g2), (a.d \div g2) * (b.n \div g1))
          ELSE IF a.n = 0 THEN NaN
          ELSE Inf(Sgn(a.n)))
    ELSE IF a = NaN \/ b = NaN THEN NaN
    ELSE IF IsInf(a) /\ IsInf(b) THEN NaN
    ELSE IF IsInf(a) THEN Inf(a.s * (IF SignOf(b) < 0 THEN -1 ELSE 1))
    ELSE Num(0)

RECURSIVE LtQ(_, _, _, _)
\* n1/d1 < n2/d2 for d1, d2 > 0, by the whole parts first and then the
\* remainders, so that no product is formed
LtQ(n1, d1, n2, d2) ==
    LET q1 == n1 \div d1
        q2 == n2 \div d2
        r1 == n1 % d1
        r2 == n2 % d2
    IN  IF q1 # q2 THEN q1 < q2
        ELSE IF r2 = 0 THEN FALSE
        ELSE IF r1 = 0 THEN TRUE
        ELSE LtQ(d2, r2, d1, r1)

\* a < b and a <= b; every comparison with NaN is false
Lt(a, b) ==
    /\ a # NaN /\ b # NaN /\ a # b
    /\ IF IsInf(a) THEN a.s < 0
       ELSE IF IsInf(b) THEN b.s > 0
       ELSE LtQ(a.n, a.d, b.n, b.d)
Le(a, b) == a # NaN /\ b # NaN /\ (a = b \/ Lt(a, b))

\* ToBoolean: null, 0 and NaN are falsy
Truthy(x) == ~(x = null \/ x = NaN \/ x = Num(0))

\* x || y
OrElse(x, y) == IF Truthy(x) THEN x ELSE y

-----------------------------------------------------------------------------
(* Array.prototype.slice(start, end) and reduce((a, b) => a + b, 0); the    *)
(* arrays of the source are 0-based, the sequences here 1-based            *)

Min2(a, b) == IF a < b THEN a ELSE b
Max2(a, b) == IF a > b THEN a ELSE b

slice(arr, start, end) ==
    LET len == Len(arr)
        k == IF start < 0 THEN Max2(len + start, 0) ELSE Min2(start, len)
        final == IF end < 0 THEN Max2(len + end, 0) ELSE Min2(end, len)
    IN  [j \in 1..Max2(final - k, 0) |-> arr[k + j]]

RECURSIVE sumRange(_, _, _)
\* arr[lo] + ... + arr[hi], halving the range (addition here is exact, so the
\* grouping does not change the total)
sumRange(arr, lo, hi) ==
    IF lo > hi THEN Num(0)
    ELSE IF lo = hi THEN arr[lo]
    ELSE LET mid == (lo + hi) \div 2
         IN  Add(sumRange(arr, lo, mid), sumRange(arr, mid + 1, hi))

\* arr.reduce((a, b) => a + b, acc)
reduceSum(arr, acc) == Add(acc, sumRange(arr, 1, Len(arr)))

-----------------------------------------------------------------------------
(* calculateMA, as written twice in the source: in StockChart and in       *)
(* CandlestickChart                                                        *)

\* calculateMA with the window ending one close early
calculateMA_dropsCurrent(ps, p) ==
    [i \in 1..Len(ps) |->
        LET index == i - 1 IN
        IF index < p - 1 THEN null
        ELSE LET sl == slice(ps, index - p + 1, index)
                 sum == reduceSum(sl, Num(0))
             IN  Div(sum, Num(p))]

\* calculateMA with a warm-up one element too short
calculateMA_shortWarmup(ps, p) ==
    [i \in 1..Len(ps) |->
        LET index == i - 1 IN
        IF index < p - 2 THEN null
        ELSE LET sl == slice(ps, index - p + 1, index + 1)
                 sum == reduceSum(sl, Num(0))
             IN  Div(sum, Num(p))]

calculateMA(ps, p) ==
    [i \in 1..Len(ps) |->
        LET index == i - 1 IN
        IF index < p - 1 THEN null
        ELSE LET sl == slice(ps, index - p + 1, index + 1)
                 sum == reduceSum(sl, Num(0))
             IN  Div(sum, Num(p))]

-----------------------------------------------------------------------------
(* Bounds of the inputs *)

\* longest enumerated close sequence handed to one call of calculateMA
MaxMALen == 4
\* periods range over -MaxNegPeriod .. MaxPeriod
MaxNegPeriod == 2
MaxPeriod == 6

\* closes as the callers pass them: numbers (a missing close already is 0)
CloseValues == {Num(0), Num(100), Num(250)}

RECURSIVE SeqsUpTo(_, _)
\* every sequence over S of length 0..n
SeqsUpTo(S, n) ==
    IF n = 0 THEN {<<>>}
    ELSE LET shorter == SeqsUpTo(S, n - 1)
         IN  shorter \cup {Append(q, x) : q \in {r \in shorter : Len(r) = n - 1}, x \in S}

\* 30 closes all equal to 500, with period 25
FlatCloses == [i \in 1..30 |-> Num(500)]

MAInputs ==
    {<<ps, p>> : ps \in SeqsUpTo(CloseValues, MaxMALen), p \in (-MaxNegPeriod)..MaxPeriod}
        \cup {<<FlatCloses, 25>>}

-----------------------------------------------------------------------------
(* StockChart state while no chart is mounted in a specification *)

ChartIdle ==
    /\ stockPrices = <<>>
    /\ chartType = "line"
    /\ showMA = "25"
    /\ showVolume = TRUE

\* no call of formatAmount under way
FormatIdle ==
    /\ value = null
    /\ formatted = null

\* AnalysisPage before any financial-summary response
FinancialIdle ==
    /\ statements = <<>>
    /\ financialSummary = null
    /\ latestFiscalYear = null
    /\ financialDataPoints = 0

\* no session: "none" stands for a missing value of a string-valued cell
none == "none"

\* CompanySearch as constructed, its first effect not yet run
SearchIdle ==
    /\ search = [query |-> "", results |-> <<>>, isLoading |-> FALSE,
                 showResults |-> FALSE, mounted |-> TRUE]
    /\ timers = {}
    /\ requests = {}
    /\ issued = 0
    /\ unchangedFor = 0
    /\ debounced = none

\* AnalysisPage as constructed, before its effects have run
PageIdle ==
    /\ page = [company |-> null, latestPrice |-> null, isLoading |-> TRUE,
               error |-> null, isInWatchlist |-> FALSE, watchlistLoading |-> FALSE,
               isFetchingFinancial |-> FALSE, fetchFinancialMessage |-> null]
    /\ session = FALSE
    /\ loadPc = [mounted |-> FALSE, runs |-> <<>>]
    /\ togglePc = [inflight |-> <<>>, last |-> none]
    /\ checkPc = "idle"
    /\ outcome = [company |-> none, latestPrice |-> none,
                  stockPrices |-> none, financial |-> none]
    /\ fetchPc = [pc |-> "idle", clicks |-> 0]
    /\ reloads = 0

-----------------------------------------------------------------------------
(* SpecMA: one call of calculateMA on every bounded input *)

InitMA ==
    /\ ChartIdle /\ FormatIdle /\ FinancialIdle /\ SearchIdle /\ PageIdle
    /\ \E in \in MAInputs : prices = in[1] /\ period = in[2]
    /\ maResult = <<>>
    /\ pc = "call"

CallCalculateMA ==
    /\ pc = "call"
    /\ maResult' = calculateMA(prices, period)
    /\ pc' = "done"
    /\ UNCHANGED <<prices, period, chartVars, fmtVars, finVars, searchVars, pageVars>>

NextMA == CallCalculateMA

SpecMA == InitMA /\ [][NextMA]_vars

-----------------------------------------------------------------------------
(* Claims about calculateMA *)

MAReturned == pc = "done"

RECURSIVE TotalCloses(_, _, _)
\* ps[lo] + ... + ps[hi] of integer closes
TotalCloses(ps, lo, hi) ==
    IF lo > hi THEN 0 ELSE ps[lo].n + TotalCloses(ps, lo + 1, hi)

\* C1: for every close sequence and every period p >= 1, calculateMA returns a
\* sequence of the same length whose element i (0-based) is null for i < p-1
\* and otherwise the sum of the p closes ending at i divided by p; 30 closes
\* of 500 with p = 25 give 24 nulls and then six values of 500.
C1_MovingAverage ==
    (MAReturned /\ period >= 1) =>
        /\ Len(maResult) = Len(prices)
        /\ \A i \in 1..Len(prices) :
              IF i - 1 < period - 1
              THEN maResult[i] = null
              ELSE /\ IsFinite(maResult[i])
                   /\ maResult[i].n * period
                        = maResult[i].d * TotalCloses(prices, i - period + 1, i)
        /\ (prices = FlatCloses /\ period = 25) =>
              maResult = [i \in 1..30 |-> IF i <= 24 THEN null ELSE Num(500)]

\* a call with a window shorter than the series whose closes differ
C1_Witness ==
    /\ MAReturned
    /\ period = 3 /\ Len(prices) = 4
    /\ prices[2] # prices[4]
    /\ maResult[4] # null

\* C2: calculateMA of the empty sequence is empty for any period, and with
\* p > len(S) the result has length len(S) and is null everywhere.
C2_EmptyAndShort ==
    MAReturned =>
        /\ prices = <<>> => maResult = <<>>
        /\ period > Len(prices) =>
              /\ Len(maResult) = Len(prices)
              /\ \A i \in 1..Len(prices) : maResult[i] = null

C2_Witness ==
    /\ MAReturned
    /\ Len(prices) >= 1
    /\ period = Len(prices) + 1

\* C4 (as claimed): for a period p <= 0 calculateMA returns a sequence of
\* length len(S) whose elements are all null.
C4_InvalidPeriodAllNull ==
    (MAReturned /\ period <= 0) =>
        /\ Len(maResult) = Len(prices)
        /\ \A i \in 1..Len(prices) : maResult[i] = null

-----------------------------------------------------------------------------
(* StockChart: what it derives from its props and state on every render.   *)
(* A price point is [date, open_price, high_price, low_price, close_price,  *)
(* volume]; every field but date is a number or null.  Dataset labels are   *)
(* written "close", "ma5", "ma25", "ma75", "volume".                        *)

\* the closes with the missing ones left out instead of counted as 0
chartData_closePrices_skipsNull(sp) ==
    LET present == SelectSeq(sp, LAMBDA pt : pt.close_price # null)
    IN  [i \in 1..Len(present) |-> present[i].close_price]

\* stockPrices.map(p => p.close_price || 0) inside chartData
chartData_closePrices(sp) ==
    [i \in 1..Len(sp) |-> OrElse(sp[i].close_price, Num(0))]

\* the dataset of one moving average of the line chart
maDataset(label, closePrices, p) ==
    [label |-> label, data |-> calculateMA(closePrices, p)]

chartData(sp, ma) ==
    LET labels == [i \in 1..Len(sp) |-> sp[i].date]
        closePrices == chartData_closePrices(sp)
        close == <<[label |-> "close", data |-> closePrices]>>
        ds5 == IF ma = "5" \/ ma = "all"
               THEN <<maDataset("ma5", closePrices, 5)>> ELSE <<>>
        ds25 == IF ma = "25" \/ ma = "all"
                THEN <<maDataset("ma25", closePrices, 25)>> ELSE <<>>
        ds75 == IF ma = "75" \/ ma = "all"
                THEN <<maDataset("ma75", closePrices, 75)>> ELSE <<>>
    IN  [labels |-> labels, datasets |-> close \o ds5 \o ds25 \o ds75]

\* a >= b of two numbers
Ge(a, b) == Le(b, a)

\* candlestickData calling a day up only when it closed above its open
candlestickData_strictUp(sp) ==
    [i \in 1..Len(sp) |->
        [date |-> sp[i].date,
         open |-> sp[i].open_price,
         high |-> sp[i].high_price,
         low |-> sp[i].low_price,
         close |-> sp[i].close_price,
         isUp |-> Lt(OrElse(sp[i].open_price, Num(0)),
                     OrElse(sp[i].close_price, Num(0)))]]

candlestickData(sp) ==
    [i \in 1..Len(sp) |->
        [date |-> sp[i].date,
         open |-> sp[i].open_price,
         high |-> sp[i].high_price,
         low |-> sp[i].low_price,
         close |-> sp[i].close_price,
         isUp |-> Ge(OrElse(sp[i].close_price, Num(0)),
                     OrElse(sp[i].open_price, Num(0)))]]

\* the closePrices prop StockChart hands to CandlestickChart
CandlestickChart_closePrices(sp) ==
    [i \in 1..Len(sp) |-> OrElse(sp[i].close_price, Num(0))]

\* stockPrices.some(p => p.volume)
someVolume(sp) == \E i \in 1..Len(sp) : Truthy(sp[i].volume)

VolumeChart(sp) ==
    [component |-> "VolumeChart",
     labels |-> [i \in 1..Len(sp) |-> sp[i].date],
     data |-> [i \in 1..Len(sp) |-> OrElse(sp[i].volume, Num(0))],
     isUp |-> [i \in 1..Len(sp) |->
                  Ge(OrElse(sp[i].close_price, Num(0)),
                     OrElse(sp[i].open_price, Num(0)))]]

\* the "no data" placeholder
NoData == [element |-> "NoData"]

\* StockChart without the early return for an empty series
StockChart_noEmptyCheck(sp, ct, ma, sv) ==
    [element |-> "StockChart",
     chart |-> IF ct = "line"
               THEN [component |-> "Line", data |-> chartData(sp, ma)]
               ELSE [component |-> "CandlestickChart",
                     data |-> candlestickData(sp),
                     showMA |-> ma,
                     closePrices |-> CandlestickChart_closePrices(sp)],
     volume |-> IF sv /\ someVolume(sp) THEN VolumeChart(sp) ELSE null]

\* the element tree StockChart returns
StockChart(sp, ct, ma, sv) ==
    IF Len(sp) = 0 THEN NoData
    ELSE [element |-> "StockChart",
          chart |-> IF ct = "line"
                    THEN [component |-> "Line", data |-> chartData(sp, ma)]
                    ELSE [component |-> "CandlestickChart",
                          data |-> candlestickData(sp),
                          showMA |-> ma,
                          closePrices |-> CandlestickChart_closePrices(sp)],
          volume |-> IF sv /\ someVolume(sp) THEN VolumeChart(sp) ELSE null]

-----------------------------------------------------------------------------
(* CandlestickChart: the SVG geometry computed from its props               *)

width == 800
height == 280
paddingTop == 20
paddingRight == 60
paddingBottom == 30
paddingLeft == 10

CandlestickChart_calculateMA(ps, p) ==
    [i \in 1..Len(ps) |->
        LET index == i - 1 IN
        IF index < p - 1 THEN null
        ELSE LET sl == slice(ps, index - p + 1, index + 1)
                 sum == reduceSum(sl, Num(0))
             IN  Div(sum, Num(p))]

chartWidth == width - paddingLeft - paddingRight
chartHeight == height - paddingTop - paddingBottom

\* [d.open, d.high, d.low, d.close].filter(p => p !== null)
presentPrices(d) ==
    SelectSeq(<<d.open, d.high, d.low, d.close>>, LAMBDA x : x # null)

RECURSIVE flatMapRange(_, _, _)
flatMapRange(data, lo, hi) ==
    IF lo > hi THEN <<>>
    ELSE IF lo = hi THEN presentPrices(data[lo])
    ELSE LET mid == (lo + hi) \div 2
         IN  flatMapRange(data, lo, mid) \o flatMapRange(data, mid + 1, hi)

\* data.flatMap(d => [d.open, d.high, d.low, d.close].filter(p => p !== null))
flatMapPrices(data) == flatMapRange(data, 1, Len(data))

RECURSIVE minRange(_, _, _)
minRange(xs, lo, hi) ==
    IF lo > hi THEN Infinity
    ELSE IF lo = hi THEN xs[lo]
    ELSE LET mid == (lo + hi) \div 2
             a == minRange(xs, lo, mid)
             b == minRange(xs, mid + 1, hi)
         IN  IF a = NaN \/ b = NaN THEN NaN ELSE IF Lt(b, a) THEN b ELSE a

\* Math.min(...xs): Infinity for no argument
MathMin(xs) == minRange(xs, 1, Len(xs))

RECURSIVE maxRange(_, _, _)
maxRange(xs, lo, hi) ==
    IF lo > hi THEN NegInfinity
    ELSE IF lo = hi THEN xs[lo]
    ELSE LET mid == (lo + hi) \div 2
             a == maxRange(xs, lo, mid)
             b == maxRange(xs, mid + 1, hi)
         IN  IF a = NaN \/ b = NaN THEN NaN ELSE IF Lt(a, b) THEN b ELSE a

\* Math.max(...xs): -Infinity for no argument
MathMax(xs) == maxRange(xs, 1, Len(xs))

\* the price range of the plot, computed once per render
priceScale(data) ==
    LET ps == flatMapPrices(data)
        minPrice == Mul(MathMin(ps), Q(99, 100))
        maxPrice == Mul(MathMax(ps), Q(101, 100))
    IN  [minPrice |-> minPrice, maxPrice |-> maxPrice,
         priceRange |-> Sub(maxPrice, minPrice)]

\* xScale dividing by the number of points instead of the number of gaps
xScale_dividesByLength(data, index) ==
    Add(Num(paddingLeft),
        Mul(Div(Num(index), Num(Len(data))), Num(chartWidth)))

\* index is the 0-based index of the source
xScale(data, index) ==
    Add(Num(paddingLeft),
        Mul(Div(Num(index), Num(Len(data) - 1)), Num(chartWidth)))

\* yScale measuring the price from the bottom of the range
yScale_fromMinPrice(sc, price) ==
    Add(Num(paddingTop),
        Mul(Div(Sub(price, sc.minPrice), sc.priceRange), Num(chartHeight)))

\* sc is priceScale(data)
yScale(sc, price) ==
    Add(Num(paddingTop),
        Mul(Div(Sub(sc.maxPrice, price), sc.priceRange), Num(chartHeight)))

\* Math.abs(x)
MathAbs(x) == IF x = NaN THEN NaN ELSE IF SignOf(x) < 0 THEN Neg(x) ELSE x

\* the candle width without its two limits
candleWidth_unclamped(data) == Sub(Div(Num(chartWidth), Num(Len(data))), Num(2))

\* Math.max(2, Math.min(8, chartWidth / data.length - 2))
candleWidth(data) ==
    MathMax(<<Num(2),
              MathMin(<<Num(8), Sub(Div(Num(chartWidth), Num(Len(data))), Num(2))>>)>>)

\* Math.abs(close - open) with nothing put in its place when it is 0
bodyHeight_noFloor(open, close) == MathAbs(Sub(close, open))

\* Math.abs(close - open) || 1 of the two pixel rows open and close
bodyHeight(open, close) == OrElse(MathAbs(Sub(close, open)), Num(1))

\* the complete points drawn side by side, the k-th of them at xScale(k)
candles_compacted(data) ==
    LET sc == priceScale(data)
        complete == {j \in 1..Len(data) :
                        ~(data[j].open = null \/ data[j].close = null
                            \/ data[j].high = null \/ data[j].low = null)}
    IN  [i \in 1..Len(data) |->
            LET d == data[i] IN
            IF i \notin complete THEN null
            ELSE LET open == yScale(sc, d.open)
                     close == yScale(sc, d.close)
                 IN  [x |-> xScale(data, Cardinality({j \in complete : j < i})),
                      high |-> yScale(sc, d.high),
                      low |-> yScale(sc, d.low),
                      bodyTop |-> MathMin(<<open, close>>),
                      bodyHeight |-> bodyHeight(open, close),
                      width |-> candleWidth(data),
                      isUp |-> d.isUp]]

\* data.map((d, i) => ...): one entry per point, null where no candle is drawn
candles(data) ==
    LET sc == priceScale(data) IN
    [i \in 1..Len(data) |->
        LET d == data[i] IN
        IF d.open = null \/ d.close = null \/ d.high = null \/ d.low = null
        THEN null
        ELSE LET open == yScale(sc, d.open)
                 close == yScale(sc, d.close)
             IN  [x |-> xScale(data, i - 1),
                  high |-> yScale(sc, d.high),
                  low |-> yScale(sc, d.low),
                  bodyTop |-> MathMin(<<open, close>>),
                  bodyHeight |-> bodyHeight(open, close),
                  width |-> candleWidth(data),
                  isUp |-> d.isUp]]

\* the five fractions of the plot height a gridline is drawn at
gridRatios == <<Num(0), Q(1, 4), Q(1, 2), Q(3, 4), Num(1)>>

\* Math.round(x): the integer nearest to x, a tie going up
MathRound(x) ==
    IF IsFinite(x) THEN Num((2 * x.n + x.d) \div (2 * x.d)) ELSE x

RECURSIVE digitGroups(_)
\* the groups of three digits of a natural number, highest first
digitGroups(k) ==
    IF k < 1000 THEN <<k>> ELSE Append(digitGroups(k \div 1000), k % 1000)

\* toLocaleString() of a rounded number: its digits in groups of three
toLocaleString(x) ==
    IF x = NaN THEN [text |-> "NaN"]
    ELSE IF IsInf(x) THEN [text |-> "Infinity", negative |-> x.s < 0]
    ELSE [text |-> "digits", negative |-> x.n < 0, groups |-> digitGroups(Abs(x.n))]

\* maxPrice - priceRange * ratio, the price a gridline is labelled with
gridPrice(sc, ratio) == Sub(sc.maxPrice, Mul(sc.priceRange, ratio))

\* the horizontal gridlines and their labels, top to bottom
grid(data) ==
    LET sc == priceScale(data) IN
    [k \in 1..Len(gridRatios) |->
        LET ratio == gridRatios[k] IN
        [x1 |-> Num(paddingLeft),
         x2 |-> Num(width - paddingRight),
         y |-> Add(Num(paddingTop), Mul(Num(chartHeight), ratio)),
         label |-> toLocaleString(MathRound(gridPrice(sc, ratio)))]]

\* Math.ceil(a / b) of two naturals, b > 0
ceilDiv(a, b) == (a + b - 1) \div b

\* d.date.slice(5): a date without its year
dateSlice5(date) == [month |-> date.month, day |-> date.day]

\* the x-axis labels with the stride rounded down
xLabels_floorStride(data) ==
    LET step == Max2(Len(data) \div 8, 1)
        kept == SelectSeq([i \in 1..Len(data) |-> i], LAMBDA i : (i - 1) % step = 0)
    IN  [k \in 1..Len(kept) |->
            [index |-> kept[k] - 1,
             x |-> xScale(data, kept[k] - 1),
             text |-> dateSlice5(data[kept[k]].date)]]

\* the labels under the x axis; indexOf finds each point at its own index,
\* the points being distinct objects
xLabels(data) ==
    LET step == ceilDiv(Len(data), 8)
        kept == SelectSeq([i \in 1..Len(data) |-> i], LAMBDA i : (i - 1) % step = 0)
    IN  [k \in 1..Len(kept) |->
            [index |-> kept[k] - 1,
             x |-> xScale(data, kept[k] - 1),
             text |-> dateSlice5(data[kept[k]].date)]]

\* the overlay periods with 'all' leaving out the 5-day average
maPeriods_allWithout5(ma) ==
    (IF ma = "5" THEN <<5>> ELSE <<>>)
    \o (IF ma = "25" \/ ma = "all" THEN <<25>> ELSE <<>>)
    \o (IF ma = "75" \/ ma = "all" THEN <<75>> ELSE <<>>)

\* the periods whose overlay the selection asks for, in drawing order
maPeriods(ma) ==
    (IF ma = "5" \/ ma = "all" THEN <<5>> ELSE <<>>)
    \o (IF ma = "25" \/ ma = "all" THEN <<25>> ELSE <<>>)
    \o (IF ma = "75" \/ ma = "all" THEN <<75>> ELSE <<>>)

\* an overlay that moves only at index 0 and draws a line to every other point
maLine_moveOnlyAtStart(data, closePrices, p) ==
    LET ma == CandlestickChart_calculateMA(closePrices, p)
        sc == priceScale(data)
    IN  [period |-> p,
         path |-> [i \in 1..Len(ma) |->
                     LET m == ma[i] IN
                     IF m # null
                     THEN [cmd |-> IF i - 1 = 0 THEN "M" ELSE "L",
                           x |-> xScale(data, i - 1),
                           y |-> yScale(sc, m)]
                     ELSE [cmd |-> ""]]]

\* one overlay: the path has one entry per index, the empty string for a null
maLine(data, closePrices, p) ==
    LET ma == CandlestickChart_calculateMA(closePrices, p)
        sc == priceScale(data)
    IN  [period |-> p,
         path |-> [i \in 1..Len(ma) |->
                     LET m == ma[i] IN
                     IF m # null
                     THEN [cmd |-> IF i - 1 = 0 \/ ma[i - 1] = null THEN "M" ELSE "L",
                           x |-> xScale(data, i - 1),
                           y |-> yScale(sc, m)]
                     ELSE [cmd |-> ""]]]

maLines(data, ma, closePrices) ==
    [k \in 1..Len(maPeriods(ma)) |-> maLine(data, closePrices, maPeriods(ma)[k])]

\* the SVG CandlestickChart returns
CandlestickChart(data, ma, closePrices) ==
    [grid |-> grid(data),
     candles |-> candles(data),
     maLines |-> maLines(data, ma, closePrices),
     xLabels |-> xLabels(data)]

-----------------------------------------------------------------------------
(* The price series handed to StockChart *)

\* longest series enumerated point by point
MaxSeriesLen == 2
\* long series have 25 or 75 points (two of the moving-average periods) plus
\* 0..MaxExtra more
MaxExtra == 1

Point(o, h, l, c, v) ==
    [open_price |-> o, high_price |-> h, low_price |-> l, close_price |-> c, volume |-> v]

PointKindList ==
    << Point(Num(100), Num(120), Num(90), Num(110), Num(1000)),   \* up day
       Point(Num(110), Num(115), Num(95), Num(100), Num(0)),      \* down day, volume 0
       Point(Num(100), Num(120), Num(90), null, Num(500)),        \* close missing
       Point(null, null, null, null, null),                       \* nothing reported
       Point(Num(500), Num(500), Num(500), Num(500), null),       \* flat day, no volume
       Point(Num(0), Num(0), Num(0), Num(0), Num(300)),           \* all prices 0
       Point(Num(500), Num(1000), Num(1), Num(501), Num(2000)) >> \* wide range, close 1 above open

PointKinds == {PointKindList[k] : k \in 1..Len(PointKindList)}

\* the i-th point carries the i-th day counted from 1 January 2024, every
\* month taken as 31 days long
Dated(kinds) ==
    [i \in 1..Len(kinds) |->
        [date |-> [year |-> 2024, month |-> 1 + (i - 1) \div 31, day |-> 1 + ((i - 1) % 31)],
         open_price |-> kinds[i].open_price,
         high_price |-> kinds[i].high_price,
         low_price |-> kinds[i].low_price,
         close_price |-> kinds[i].close_price,
         volume |-> kinds[i].volume]]

\* two point kinds alternating over n days
Alternating(a, b, n) == [i \in 1..n |-> IF i % 2 = 1 THEN a ELSE b]

LongLengths == {p + k : p \in {25, 75}, k \in 0..MaxExtra}

\* series so dense that chartWidth / length - 2 falls to 2 and below
DenseLengths == {182 + k : k \in 0..MaxExtra}

SeriesInputs ==
    {Dated(k) : k \in SeqsUpTo(PointKinds, MaxSeriesLen)}
        \cup {Dated(Alternating(PointKindList[a], PointKindList[b], n)) :
                 a \in 1..Len(PointKindList), b \in 1..Len(PointKindList), n \in LongLengths}
        \cup {Dated(Alternating(PointKindList[1], PointKindList[2], n)) : n \in DenseLengths}

\* longest series a mounted chart is handed in place of the one it shows
MaxPropsLen == 1

\* the series a mounted chart is re-rendered with; the chart may be mounted
\* with any series of SeriesInputs
PropsInputs == {Dated(k) : k \in SeqsUpTo(PointKinds, MaxPropsLen)}

ChartTypes == {"line", "candlestick"}
MATypes == {"none", "5", "25", "75", "all"}

-----------------------------------------------------------------------------
(* Spec: a mounted StockChart.  Every action is followed by a render, which *)
(* is a function of the props and the state: View.                          *)

\* no call of calculateMA under way
MAIdle ==
    /\ prices = <<>>
    /\ period = 1
    /\ maResult = <<>>

Init ==
    /\ stockPrices \in SeriesInputs
    /\ chartType = "line"
    /\ showMA = "25"
    /\ showVolume = TRUE
    /\ MAIdle /\ FormatIdle /\ FinancialIdle /\ SearchIdle /\ PageIdle
    /\ pc = "done"

\* the parent renders StockChart with a new stockPrices prop
ReceiveProps ==
    /\ \E sp \in PropsInputs : stockPrices' = sp
    /\ UNCHANGED <<chartType, showMA, showVolume, maVars, fmtVars, finVars, pc, searchVars, pageVars>>

\* the two selects exist only below the early return for an empty series
setChartType ==
    /\ Len(stockPrices) # 0
    /\ \E v \in ChartTypes : chartType' = v
    /\ UNCHANGED <<stockPrices, showMA, showVolume, maVars, fmtVars, finVars, pc, searchVars, pageVars>>

setShowMA ==
    /\ Len(stockPrices) # 0
    /\ \E v \in MATypes : showMA' = v
    /\ UNCHANGED <<stockPrices, chartType, showVolume, maVars, fmtVars, finVars, pc, searchVars, pageVars>>

Next == ReceiveProps \/ setChartType \/ setShowMA

Spec == Init /\ [][Next]_vars

View == StockChart(stockPrices, chartType, showMA, showVolume)

-----------------------------------------------------------------------------
(* Claims about the rendered chart *)

Mounted == View # NoData
LineView == Mounted /\ View.chart.component = "Line"
CandleView == Mounted /\ View.chart.component = "CandlestickChart"

RECURSIVE WindowTotal(_, _, _)
\* the closes of points lo..hi added up, a missing close counted as 0
WindowTotal(sp, lo, hi) ==
    IF lo > hi THEN 0
    ELSE (IF sp[lo].close_price = null THEN 0 ELSE sp[lo].close_price.n)
            + WindowTotal(sp, lo + 1, hi)

\* ma is the p-day average of the series: from the p-th point on, p times the
\* element is the total of the p points ending there
AveragesWithZeroForNull(ma, sp, p) ==
    /\ Len(ma) = Len(sp)
    /\ \A i \in p..Len(sp) :
          LET m == ma[i]
          IN  /\ IsFinite(m)
              /\ m.n * p = m.d * WindowTotal(sp, i - p + 1, i)

PeriodOfLabel(label) ==
    CASE label = "ma5" -> 5 [] label = "ma25" -> 25 [] label = "ma75" -> 75

\* C3: in the line view and in the candlestick view alike, a point whose close
\* is null adds 0 to every moving-average window containing it, and the
\* window total is still divided by the full period.
C3_NullCloseCountsAsZero ==
    LET v == View IN
    /\ (v # NoData /\ v.chart.component = "Line") =>
          LET datasets == v.chart.data.datasets
          IN  \A k \in 2..Len(datasets) :
                 AveragesWithZeroForNull(datasets[k].data, stockPrices,
                                         PeriodOfLabel(datasets[k].label))
    /\ (v # NoData /\ v.chart.component = "CandlestickChart") =>
          LET periods == maPeriods(v.chart.showMA)
          IN  \A k \in 1..Len(periods) :
                 AveragesWithZeroForNull(
                     CandlestickChart_calculateMA(v.chart.closePrices, periods[k]),
                     stockPrices, periods[k])

\* a 25-day window of the candlestick view that holds missing closes
C3_Witness ==
    /\ CandleView
    /\ showMA = "25"
    /\ Len(stockPrices) >= 25
    /\ stockPrices[25].close_price = null
    /\ Truthy(stockPrices[24].close_price)

\* C8: an empty price series renders as the "no data" placeholder whatever the
\* chart kind, the moving-average selection and the volume flag are; the
\* placeholder holds no chart and no volume component, so no scale is computed.
C8_EmptySeriesIsNoData ==
    Len(stockPrices) = 0 => View = NoData

C8_Witness ==
    /\ Len(stockPrices) = 0
    /\ chartType = "candlestick"
    /\ showMA = "all"
    /\ View = NoData

\* C9 (as claimed): a null close is absent (null) in the close-price line and
\* a null volume is absent in the volume chart; neither is shown as a number.
C9_NullRenderedAbsent ==
    LET v == View IN
    /\ (v # NoData /\ v.chart.component = "Line") =>
          \A i \in 1..Len(stockPrices) :
              stockPrices[i].close_price = null
                  => v.chart.data.datasets[1].data[i] = null
    /\ (v # NoData /\ v.volume # null) =>
          \A i \in 1..Len(stockPrices) :
              stockPrices[i].volume = null => v.volume.data[i] = null

\* C10: in the candlestick view of N > 1 points,
\* xScale(i) = paddingLeft + i/(N-1) * (W - paddingLeft - paddingRight), so
\* xScale(0) = paddingLeft, xScale(N-1) = W - paddingRight, and xScale is
\* strictly increasing.
C10_XScale ==
    LET v == View IN
    (v # NoData /\ v.chart.component = "CandlestickChart" /\ Len(v.chart.data) > 1) =>
        LET data == v.chart.data
            N == Len(data)
            x == [i \in 0..(N - 1) |-> xScale(data, i)]
        IN  /\ \A i \in 0..(N - 1) :
                  /\ IsFinite(x[i])
                  /\ x[i].n * (N - 1)
                       = x[i].d * (paddingLeft * (N - 1)
                                     + i * (width - paddingLeft - paddingRight))
            /\ x[0] = Num(paddingLeft)
            /\ x[N - 1] = Num(width - paddingRight)
            /\ \A i \in 0..(N - 2) : Lt(x[i], x[i + 1])

C10_Witness ==
    /\ CandleView
    /\ Len(View.chart.data) = 26
    /\ xScale(View.chart.data, 5) = Num(156)


\* the SVG of the candlestick view on screen
Svg == CandlestickChart(View.chart.data, View.chart.showMA, View.chart.closePrices)

\* x is a finite horizontal position inside the plot box
InPlotX(x) ==
    IsFinite(x) /\ Le(Num(paddingLeft), x) /\ Le(x, Num(width - paddingRight))

\* C11 (as claimed): in the candlestick view of a single point, the x computed
\* for the point, for its candle and for its axis label is finite and inside
\* the plot box, never NaN or infinite.
C11_SinglePointFinite ==
    (CandleView /\ Len(stockPrices) = 1) =>
        LET svg == Svg IN
        /\ InPlotX(xScale(View.chart.data, 0))
        /\ svg.candles[1] # null => InPlotX(svg.candles[1].x)
        /\ \A k \in 1..Len(svg.xLabels) : InPlotX(svg.xLabels[k].x)


\* the open, high, low and close values the series reports
Observed(sp) ==
    UNION {{sp[i].open_price, sp[i].high_price, sp[i].low_price, sp[i].close_price} :
              i \in 1..Len(sp)} \ {null}

\* every reported price is above 0, and there is one
PositivePrices(sp) ==
    Observed(sp) # {} /\ \A q \in Observed(sp) : q.n > 0

\* C12: in the candlestick view minPrice is 0.99 times the least and maxPrice
\* 1.01 times the greatest reported open/high/low/close, and
\* yScale(p) = paddingTop + (maxPrice - p)/(maxPrice - minPrice) * (H - paddingTop - paddingBottom);
\* when all reported prices are positive, every reported price lies between
\* paddingTop and H - paddingBottom and a higher price lies higher up.
C12_YScale ==
    (CandleView /\ Observed(stockPrices) # {}) =>
        LET obs == Observed(stockPrices)
            lo == (CHOOSE q \in obs : \A r \in obs : Le(q, r)).n
            hi == (CHOOSE q \in obs : \A r \in obs : Le(r, q)).n
            sc == priceScale(View.chart.data)
            y == [q \in obs |-> yScale(sc, q)]
        IN  /\ sc.minPrice = Q(99 * lo, 100)
            /\ sc.maxPrice = Q(101 * hi, 100)
            /\ 101 * hi # 99 * lo =>
                  \A q \in obs :
                     y[q] = Add(Num(paddingTop),
                                Q((height - paddingTop - paddingBottom) * (101 * hi - 100 * q.n),
                                  101 * hi - 99 * lo))
            /\ PositivePrices(stockPrices) =>
                  /\ \A q \in obs :
                        /\ Le(Num(paddingTop), y[q])
                        /\ Le(y[q], Num(height - paddingBottom))
                  /\ \A q, r \in obs : Lt(q, r) => Lt(y[r], y[q])

\* an up day and a down day: 120 is drawn above 90
C12_Witness ==
    /\ CandleView
    /\ PositivePrices(stockPrices)
    /\ {Num(90), Num(120)} \subseteq Observed(stockPrices)
    /\ Lt(yScale(priceScale(View.chart.data), Num(120)),
          yScale(priceScale(View.chart.data), Num(90)))


\* C13 (as claimed): in every candlestick view of a non-empty series, a flat
\* series, a series of prices all 0 and a series without any price included,
\* maxPrice - minPrice is finite and not 0, and every y of a candle and every
\* gridline label is a finite number.
C13_RangeNeverZero ==
    CandleView =>
        LET sc == priceScale(View.chart.data)
            svg == Svg
        IN  /\ IsFinite(sc.priceRange)
            /\ sc.priceRange # Num(0)
            /\ \A i \in 1..Len(svg.candles) :
                  svg.candles[i] # null =>
                      /\ IsFinite(svg.candles[i].high)
                      /\ IsFinite(svg.candles[i].low)
                      /\ IsFinite(svg.candles[i].bodyTop)
            /\ \A k \in 1..Len(svg.grid) : svg.grid[k].label.text = "digits"


\* the point at index i of the series reports all four prices
Complete(sp, i) ==
    /\ sp[i].open_price # null /\ sp[i].high_price # null
    /\ sp[i].low_price # null /\ sp[i].close_price # null

\* C14 (as claimed): every drawn candle has the body height
\* max(|yScale(close) - yScale(open)|, 1) and the body top
\* min(yScale(open), yScale(close)); its body is never less than 1 pixel high,
\* also when open and close are less than one pixel apart.
C14_BodyHeightFloor ==
    CandleView =>
        LET sc == priceScale(View.chart.data)
            svg == Svg
        IN  \A i \in 1..Len(stockPrices) :
               LET open == yScale(sc, stockPrices[i].open_price)
                   close == yScale(sc, stockPrices[i].close_price)
                   c == svg.candles[i]
               IN  (Complete(stockPrices, i) /\ IsFinite(open) /\ IsFinite(close)) =>
                       /\ c # null
                       /\ c.bodyTop = (IF Lt(close, open) THEN close ELSE open)
                       /\ Le(Num(1), c.bodyHeight)
                       /\ c.bodyHeight
                            = (IF Lt(MathAbs(Sub(close, open)), Num(1)) THEN Num(1)
                               ELSE MathAbs(Sub(close, open)))

\* C15: a point with all four prices present and open equal to close is drawn
\* with a body exactly 1 pixel high, not 0.
C15_EqualOpenCloseOnePixel ==
    CandleView =>
        LET drawn == candles(View.chart.data) IN
        \A i \in 1..Len(stockPrices) :
           (Complete(stockPrices, i)
              /\ stockPrices[i].open_price = stockPrices[i].close_price) =>
                 LET c == drawn[i] IN c # null /\ c.bodyHeight = Num(1)

\* a flat day next to an up day, drawn at a finite height
C15_Witness ==
    /\ CandleView
    /\ Len(stockPrices) = 2
    /\ stockPrices[1].open_price = Num(500)
    /\ stockPrices[1].close_price = Num(500)
    /\ stockPrices[2].close_price = Num(110)
    /\ IsFinite(Svg.candles[1].bodyTop)
    /\ Svg.candles[1].bodyHeight = Num(1)


\* C16: a candle is drawn at index i exactly when point i reports open, high,
\* low and close; an incomplete point is left out without moving the others:
\* every drawn candle stands at xScale of its own index, and there are as many
\* candles as complete points.
C16_CandleIffComplete ==
    CandleView =>
        LET data == View.chart.data
            drawn == candles(data)
            N == Len(stockPrices)
        IN  /\ Len(drawn) = N
            /\ \A i \in 1..N :
                  LET c == drawn[i] IN
                  /\ c # null <=> Complete(stockPrices, i)
                  /\ c # null => c.x = xScale(data, i - 1)
            /\ Cardinality({i \in 1..N : drawn[i] # null})
                  = Cardinality({i \in 1..N : Complete(stockPrices, i)})

\* an incomplete first point followed by a complete one, which stays at the
\* right edge
C16_Witness ==
    /\ CandleView
    /\ Len(stockPrices) = 2
    /\ ~Complete(stockPrices, 1)
    /\ Complete(stockPrices, 2)
    /\ Svg.candles[1] = null
    /\ Svg.candles[2].x = Num(width - paddingRight)

\* C17: a candle is up exactly when close >= open and down otherwise, and
\* the volume bar of every index is coloured by the decision taken for the
\* candle of that index.
C17_UpDownAgree ==
    LET v == View IN
    v # NoData =>
        LET data == candlestickData(stockPrices)
            up == [i \in 1..Len(stockPrices) |-> data[i].isUp]
        IN
        /\ \A i \in 1..Len(stockPrices) :
              Complete(stockPrices, i) =>
                  (up[i] <=> Le(stockPrices[i].open_price, stockPrices[i].close_price))
        /\ v.chart.component = "CandlestickChart" =>
              LET drawn == candles(v.chart.data) IN
              \A i \in 1..Len(stockPrices) :
                 LET c == drawn[i] IN c # null => c.isUp = up[i]
        /\ v.volume # null =>
              LET bars == v.volume.isUp IN
              \A i \in 1..Len(stockPrices) : bars[i] = up[i]

\* an up day and a down day, both with their candle and their bar
C17_Witness ==
    /\ CandleView
    /\ View.volume # null
    /\ Len(stockPrices) = 2
    /\ stockPrices[1].open_price = Num(100) /\ stockPrices[1].close_price = Num(110)
    /\ stockPrices[2].open_price = Num(110) /\ stockPrices[2].close_price = Num(100)
    /\ Svg.candles[1].isUp /\ View.volume.isUp[1]
    /\ ~Svg.candles[2].isUp /\ ~View.volume.isUp[2]


\* chartWidth / n - 2 held between 2 and 8
ClampedWidth(n) ==
    LET w == Q(width - paddingLeft - paddingRight - 2 * n, n)
    IN  IF Lt(w, Num(2)) THEN Num(2) ELSE IF Lt(Num(8), w) THEN Num(8) ELSE w

\* C18: for a series of N >= 1 points the candle width is
\* clamp(chartWidth/N - 2, 2, 8): it lies between 2 and 8 pixels, and no
\* shorter series has a narrower candle.
C18_CandleWidth ==
    CandleView =>
        LET data == View.chart.data
            N == Len(data)
            w == candleWidth(data)
        IN  /\ w = ClampedWidth(N)
            /\ Le(Num(2), w) /\ Le(w, Num(8))
            /\ \A M \in 1..N : Le(w, candleWidth(SubSeq(data, 1, M)))

\* 183 points: 730 / 183 - 2 is below 2, the width is 2
C18_Witness ==
    /\ CandleView
    /\ Len(stockPrices) = 183
    /\ candleWidth(View.chart.data) = Num(2)
    /\ candleWidth(SubSeq(View.chart.data, 1, 182)) = Q(183, 91)
    /\ candleWidth(SubSeq(View.chart.data, 1, 75)) = Q(116, 15)
    /\ candleWidth(SubSeq(View.chart.data, 1, 25)) = Num(8)


\* C19: every moving-average path of the candlestick view follows the average
\* index by index: a null element emits nothing, a non-null element emits a
\* move-to when it is the first element or follows a null and a line-to
\* otherwise; so a path starts with a move-to and no line-to follows a null.
C19_PathBreaksAtNull ==
    CandleView =>
        LET data == View.chart.data
            closes == View.chart.closePrices
            lines == maLines(data, View.chart.showMA, closes)
            sc == priceScale(data)
        IN  \A k \in 1..Len(lines) :
               LET path == lines[k].path
                   ma == CandlestickChart_calculateMA(closes, lines[k].period)
                   emitted == SelectSeq(path, LAMBDA e : e.cmd # "")
               IN  /\ Len(path) = Len(ma)
                   /\ \A i \in 1..Len(ma) :
                         LET m == ma[i]
                             e == path[i]
                         IN  IF m = null THEN e.cmd = ""
                             ELSE /\ e.cmd = (IF i = 1 \/ ma[i - 1] = null THEN "M" ELSE "L")
                                  /\ e.x = xScale(data, i - 1)
                                  /\ e.y = yScale(sc, m)
                   /\ emitted # <<>> => emitted[1].cmd = "M"
                   /\ \A i \in 1..Len(path) :
                         path[i].cmd = "L" => (i > 1 /\ path[i - 1].cmd # "")

\* the 5-day overlay of 25 points: nothing for the first four, a move-to at
\* the fifth, a line-to at the sixth
C19_Witness ==
    /\ CandleView
    /\ showMA = "5"
    /\ Len(stockPrices) = 25
    /\ LET path == maLines(View.chart.data, showMA, View.chart.closePrices)[1].path
       IN  /\ path[4].cmd = ""
           /\ path[5].cmd = "M"
           /\ path[6].cmd = "L"


\* C20 (as claimed): the candlestick view draws 5 gridlines, at the fractions
\* 0, 1/4, 1/2, 3/4 and 1 of the plot height, each labelled with
\* maxPrice - priceRange * fraction (shown rounded); that price is the one
\* yScale maps to the gridline, the top one is maxPrice, the bottom one
\* minPrice, and the prices strictly decrease from top to bottom.
C20_GridLabels ==
    CandleView =>
        LET data == View.chart.data
            sc == priceScale(data)
            g == grid(data)
            labelled == [k \in 1..5 |-> gridPrice(sc, gridRatios[k])]
        IN  /\ Len(g) = 5
            /\ \A k \in 1..5 :
                  /\ g[k].y = Q(4 * paddingTop + (k - 1) * (height - paddingTop - paddingBottom), 4)
                  /\ g[k].label = toLocaleString(MathRound(labelled[k]))
                  /\ yScale(sc, labelled[k]) = g[k].y
            /\ labelled[1] = sc.maxPrice
            /\ labelled[5] = sc.minPrice
            /\ \A k \in 1..4 : Lt(labelled[k + 1], labelled[k])


\* C21: for a series of N >= 1 points the x-axis labels of the candlestick
\* view stand at exactly the indices i with i mod ceil(N/8) = 0, each at
\* xScale of its index; index 0 is labelled and there are at most 8 labels.
C21_XLabels ==
    CandleView =>
        LET data == View.chart.data
            N == Len(data)
            labels == xLabels(data)
            stride == CHOOSE k \in 1..N : 8 * k >= N /\ 8 * (k - 1) < N
        IN  /\ {labels[k].index : k \in 1..Len(labels)}
                  = {i \in 0..(N - 1) : i % stride = 0}
            /\ \A k \in 1..Len(labels) :
                  /\ labels[k].x = xScale(data, labels[k].index)
                  /\ k > 1 => labels[k - 1].index < labels[k].index
            /\ labels[1].index = 0
            /\ Len(labels) <= 8

\* 75 points: a label every 10 points, 8 labels
C21_Witness ==
    /\ CandleView
    /\ Len(stockPrices) = 75
    /\ Len(xLabels(View.chart.data)) = 8
    /\ xLabels(View.chart.data)[2].index = 10
    /\ xLabels(View.chart.data)[8].index = 70


\* C22 (as claimed): with the volume flag on, the volume panel is shown
\* exactly when some point of the series has a non-null volume; volumes of 0
\* count as present.
C22_VolumeShownIffPresent ==
    LET v == View IN
    (v # NoData /\ showVolume) =>
        (v.volume # null <=> \E i \in 1..Len(stockPrices) : stockPrices[i].volume # null)


\* the periods a moving-average selection stands for
SelectedPeriods(sel) ==
    CASE sel = "none" -> <<>>
      [] sel = "5" -> <<5>>
      [] sel = "25" -> <<25>>
      [] sel = "75" -> <<75>>
      [] sel = "all" -> <<5, 25, 75>>

\* the periods of the overlays on screen, in their order
OverlayPeriods ==
    LET v == View IN
    IF v.chart.component = "Line"
    THEN LET datasets == v.chart.data.datasets
         IN  [k \in 1..(Len(datasets) - 1) |-> PeriodOfLabel(datasets[k + 1].label)]
    ELSE LET lines == maLines(v.chart.data, v.chart.showMA, v.chart.closePrices)
         IN  [k \in 1..Len(lines) |-> lines[k].period]

\* C23: in the line view and in the candlestick view alike the overlays are
\* those of the moving-average selection: none for 'none', the one of the
\* period for '5', '25' and '75', and the three of 5, 25 and 75 in this order
\* for 'all'; a change of the chart kind leaves the selection as it is and a
\* change of the selection leaves the chart kind as it is.
C23_SelectionDeterminesOverlays ==
    /\ [](Mounted => OverlayPeriods = SelectedPeriods(showMA))
    /\ [][/\ chartType' # chartType => showMA' = showMA
          /\ showMA' # showMA => chartType' = chartType]_vars

\* the candlestick view after both selects were used
C23_Witness ==
    /\ CandleView
    /\ showMA = "all"
    /\ OverlayPeriods = <<5, 25, 75>>


\* C25 (as claimed): in the candlestick view of more than one point every
\* point of every moving-average overlay has its y between paddingTop and
\* H - paddingBottom, also when closes are missing.
C25_OverlayInsidePlot ==
    (CandleView /\ Len(stockPrices) > 1) =>
        LET lines == maLines(View.chart.data, View.chart.showMA, View.chart.closePrices)
        IN  \A k \in 1..Len(lines) :
               LET path == lines[k].path IN
               \A i \in 1..Len(path) :
                  LET e == path[i] IN
                  e.cmd # "" =>
                      /\ Le(Num(paddingTop), e.y)
                      /\ Le(e.y, Num(height - paddingBottom))

-----------------------------------------------------------------------------
(* formatAmount.  Yen amounts reach 10^15 and do not fit the integers of the *)
(* model checker, so an amount v is written [neg, oku, rem] with             *)
(*     |v| = oku * 100000000 + rem,   0 <= rem < 100000000,                  *)
(* neg telling v < 0.  The string returned is "-" (Dash) or                  *)
(* [sign, int, decimals, unit]: "12.3" + the cho suffix is                   *)
(* [sign |-> "", int |-> 12, decimals |-> <<3>>, unit |-> "cho-en"], and     *)
(* "-5" + the oku suffix is [sign |-> "-", int |-> 5, decimals |-> <<>>,     *)
(* unit |-> "oku-en"].                                                       *)

OkuUnit == 100000000
ChoThreshold == 10000
OkuPerCho == 10000

Amount(neg, oku, rem) == [neg |-> neg, oku |-> oku, rem |-> rem]
Zero == Amount(FALSE, 0, 0)

Dash == [t |-> "-"]
Text(sign, int, decimals, unit) ==
    [t |-> "amount", sign |-> sign, int |-> int, decimals |-> decimals, unit |-> unit]

\* Number.prototype.toFixed(0) of value / 100000000: the nearest integer, the
\* larger one at a tie (k + 0.5 is exact in binary); a negative number is
\* formatted as "-" followed by its magnitude
toFixed0(v) ==
    LET n == IF 2 * v.rem >= OkuUnit THEN v.oku + 1 ELSE v.oku
    IN  [sign |-> IF v.neg THEN "-" ELSE "", int |-> n, decimals |-> <<>>]

\* Number.prototype.toFixed(1) of (value / 100000000) / 10000 for value >= 0,
\* as the set of strings it can return.  tenths counts tenths of a cho, that
\* is thousands of oku.  At a decimal tie x.x5 the double nearest to the
\* quotient decides: x.25 and x.75 are exact in binary and go to the larger
\* neighbour, every other tie is stored slightly above or below and goes to
\* the neighbour on that side.
toFixed1(v) ==
    LET q == v.oku \div (OkuPerCho \div 10)
        r == v.oku % (OkuPerCho \div 10)
        half == (OkuPerCho \div 10) \div 2
        tie == r = half /\ v.rem = 0
        exact == v.oku % (OkuPerCho \div 4) = 0
        tenths == IF tie /\ ~exact THEN {q, q + 1}
                  ELSE IF r >= half THEN {q + 1}
                  ELSE {q}
    IN  {[sign |-> "", int |-> n \div 10, decimals |-> <<n % 10>>] : n \in tenths}

\* the unit switch taken only above the threshold
okuAboveThreshold(v) == ~v.neg /\ (v.oku > ChoThreshold \/ (v.oku = ChoThreshold /\ v.rem > 0))

\* oku >= 10000 of oku = value / 100000000
okuAtLeastThreshold(v) == ~v.neg /\ v.oku >= ChoThreshold

\* formatAmount returning "-" for every falsy value, 0 included
formatAmount_falsyIsDash(v) ==
    IF v = null \/ v = Zero THEN {Dash}
    ELSE IF okuAtLeastThreshold(v)
         THEN {Text(f.sign, f.int, f.decimals, "cho-en") : f \in toFixed1(v)}
         ELSE LET f == toFixed0(v) IN {Text(f.sign, f.int, f.decimals, "oku-en")}

\* every string formatAmount(v) can return
formatAmount(v) ==
    IF v = null THEN {Dash}
    ELSE IF okuAtLeastThreshold(v)
         THEN {Text(f.sign, f.int, f.decimals, "cho-en") : f \in toFixed1(v)}
         ELSE LET f == toFixed0(v) IN {Text(f.sign, f.int, f.decimals, "oku-en")}

-----------------------------------------------------------------------------
(* SpecFormat: one call of formatAmount on every bounded input *)

\* amounts are taken within MaxDelta of every boundary
MaxDelta == 2

Around(c) == {c + k : k \in 0..MaxDelta} \cup {c - k : k \in 0..Min2(MaxDelta, c)}

OkuInputs ==
    Around(0) \cup Around(ChoThreshold) \cup Around(10500) \cup Around(12500)
        \cup Around(11500) \cup {10000000}

RemInputs ==
    {k \in Around(0) \cup Around(OkuUnit \div 2) \cup Around(OkuUnit - 1) : k < OkuUnit}

AmountInputs ==
    {Amount(neg, oku, rem) : neg \in BOOLEAN, oku \in OkuInputs, rem \in RemInputs}
        \ {Amount(TRUE, 0, 0)}

InitFormat ==
    /\ ChartIdle /\ MAIdle /\ FinancialIdle /\ SearchIdle /\ PageIdle
    /\ value \in {null} \cup AmountInputs
    /\ formatted = null
    /\ pc = "call"

CallFormatAmount ==
    /\ pc = "call"
    /\ \E text \in formatAmount(value) : formatted' = text
    /\ pc' = "done"
    /\ UNCHANGED <<value, chartVars, maVars, finVars, searchVars, pageVars>>

NextFormat == CallFormatAmount

SpecFormat == InitFormat /\ [][NextFormat]_vars

-----------------------------------------------------------------------------
(* Claims about formatAmount *)

Formatted == pc = "done"

\* C5: formatAmount(null) is exactly "-"; for a non-null value the result is
\* never "-" but a number followed by one of the two unit suffixes.
C5_DashOnlyForNull ==
    Formatted =>
        /\ value = null => formatted = Dash
        /\ value # null =>
              /\ formatted # Dash
              /\ formatted.t = "amount"
              /\ formatted.int \in Nat
              /\ formatted.unit \in {"cho-en", "oku-en"}

C5_Witness == Formatted /\ value = null /\ formatted = Dash

\* C6: with oku = v / 100,000,000, the cho suffix is used exactly when
\* oku >= 10,000 (v >= 10^12), with oku / 10,000 to one decimal place;
\* otherwise the oku suffix with oku to zero decimal places; formatAmount(0)
\* is "0" with the oku suffix.
\* "To one decimal place": the tenths shown, n, are within half a tenth of
\* oku / 10,000, that is |1000 n - oku| <= 500.  "To zero decimal places":
\* the integer shown is within one half of |oku|.
C6_UnitSwitch ==
    (Formatted /\ value # null) =>
        LET v == value
            f == formatted
        IN  /\ f.unit = "cho-en" <=> (~v.neg /\ v.oku >= 10000)
            /\ f.unit = "cho-en" =>
                  LET n == 10 * f.int + f.decimals[1]
                  IN  /\ Len(f.decimals) = 1 /\ f.decimals[1] \in 0..9
                      /\ f.sign = ""
                      /\ v.oku >= 1000 * n - 500
                      /\ \/ v.oku < 1000 * n + 500
                         \/ v.oku = 1000 * n + 500 /\ v.rem = 0
            /\ f.unit = "oku-en" =>
                  /\ f.decimals = <<>>
                  /\ f.sign = (IF v.neg THEN "-" ELSE "")
                  /\ \/ f.int = v.oku /\ 2 * v.rem <= 100000000
                     \/ f.int = v.oku + 1 /\ 2 * v.rem >= 100000000
            /\ v = Zero => f = Text("", 0, <<>>, "oku-en")

\* exactly 10^12 yen is shown as 1.0 with the cho suffix
C6_Witness ==
    /\ Formatted
    /\ value = Amount(FALSE, 10000, 0)
    /\ formatted = Text("", 1, <<0>>, "cho-en")


\* C24 (as claimed): a non-negative value shown with the oku suffix shows an
\* integer below 10000; no value below 10^12 is rounded up to "10000" oku-en.
C24_OkuBelowThreshold ==
    (Formatted /\ value # null /\ ~value.neg /\ formatted.unit = "oku-en") =>
        formatted.int < ChoThreshold

-----------------------------------------------------------------------------
(* The financial summary.  The backend computes it from the annual          *)
(* statements (ascending by fiscal year); AnalysisPage stores the response   *)
(* and renders the two growth lines.  A statement is                         *)
(* [fiscal_year, revenue, net_income]; the other fields of a statement are   *)
(* copied through unchanged and are left out.                                *)

\* (latest - previous) / previous * 100, or null
growth(latest, previous) ==
    IF latest # null /\ previous # null /\ previous # Num(0)
    THEN Mul(Div(Sub(latest, previous), previous), Num(100))
    ELSE null

\* the response of GET /api/financial/{code}/financial-summary
computeFinancialSummary(st) ==
    IF Len(st) = 0
    THEN [latest_fiscal_year |-> null, summary |-> null, data_points |-> 0]
    ELSE LET latest == st[Len(st)]
             hasPrevious == Len(st) >= 2
         IN  [latest_fiscal_year |-> Num(latest.fiscal_year),
              summary |->
                  [revenue |-> latest.revenue,
                   net_income |-> latest.net_income,
                   revenue_growth |->
                       IF hasPrevious
                       THEN growth(latest.revenue, st[Len(st) - 1].revenue)
                       ELSE null,
                   profit_growth |->
                       IF hasPrevious
                       THEN growth(latest.net_income, st[Len(st) - 1].net_income)
                       ELSE null],
              data_points |-> Len(st)]

\* the growth line with "+" only for a figure above 0
growthLine_plusOnlyAboveZero(g) ==
    IF g # null
    THEN [shown |-> TRUE,
          colour |-> IF Ge(g, Num(0)) THEN "green" ELSE "red",
          prefix |-> IF Lt(Num(0), g) THEN "+" ELSE "",
          figure |-> g]
    ELSE [shown |-> FALSE]

\* one growth line of the summary panel: nothing for null, otherwise the
\* colour, the prefix and the figure followed by "%"
growthLine(g) ==
    IF g # null
    THEN [shown |-> TRUE,
          colour |-> IF Ge(g, Num(0)) THEN "green" ELSE "red",
          prefix |-> IF Ge(g, Num(0)) THEN "+" ELSE "",
          figure |-> g]
    ELSE [shown |-> FALSE]

\* the summary panel of the page: the two growth lines, or the "no data" text
summaryPanel(fs) ==
    IF fs # null
    THEN [panel |-> "summary",
          revenue_growth |-> growthLine(fs.revenue_growth),
          profit_growth |-> growthLine(fs.profit_growth)]
    ELSE [panel |-> "none"]

-----------------------------------------------------------------------------
(* SpecSummary: the financial-summary request of loadData resolves *)

\* most fiscal years the backend holds
MaxYears == 2

AmountValues == {null, Num(0), Num(100), Num(150), Num(-50)}

\* the k-th statement is fiscal year 2000 + k
StatementInputs ==
    UNION {[1..n -> [revenue : AmountValues, net_income : AmountValues]] : n \in 0..MaxYears}

WithYears(rows) ==
    [k \in 1..Len(rows) |->
        [fiscal_year |-> 2000 + k, revenue |-> rows[k].revenue,
         net_income |-> rows[k].net_income]]

InitSummary ==
    /\ ChartIdle /\ MAIdle /\ FormatIdle /\ SearchIdle /\ PageIdle
    /\ \E rows \in StatementInputs : statements = WithYears(rows)
    /\ financialSummary = null
    /\ latestFiscalYear = null
    /\ financialDataPoints = 0
    /\ pc = "call"

\* loadData after "await api.getFinancialSummary(code)" has resolved
loadData_financialData ==
    /\ pc = "call"
    /\ LET financialData == computeFinancialSummary(statements)
       IN  /\ financialSummary' = financialData.summary
           /\ latestFiscalYear' = financialData.latest_fiscal_year
           /\ financialDataPoints' = financialData.data_points
    /\ pc' = "done"
    /\ UNCHANGED <<statements, chartVars, maVars, fmtVars, searchVars, pageVars>>

NextSummary == loadData_financialData

SpecSummary == InitSummary /\ [][NextSummary]_vars

SummaryView == summaryPanel(financialSummary)

-----------------------------------------------------------------------------
(* Claims about the growth figures *)

\* the growth rule, stated on numerators: g is null unless both values exist
\* and the previous one is not 0, and then g * previous = (latest - previous) * 100
IsGrowthOf(g, st, field) ==
    LET n == Len(st)
        latest == st[n][field]
        previous == st[n - 1][field]
    IN  IF n >= 2 /\ latest # null /\ previous # null /\ previous.n # 0
        THEN /\ IsFinite(g)
             /\ g.n * previous.n = g.d * (latest.n - previous.n) * 100
        ELSE g = null

\* a line is shown only for a non-null figure, with "+" exactly when it is >= 0
ShowsGrowth(line, g) ==
    IF g = null THEN line = [shown |-> FALSE]
    ELSE /\ line.shown
         /\ line.figure = g
         /\ line.prefix = (IF g.n >= 0 THEN "+" ELSE "")

\* C7: growth is (latest - previous) / previous * 100 when both years exist,
\* both values are non-null and the previous one is not 0, and null otherwise
\* (100 then 150 gives 50, 0 then 150 gives null); the page shows a growth
\* figure only when it is non-null, prefixed by "+" exactly when it is >= 0.
C7_Growth ==
    (pc = "done" /\ Len(statements) >= 1) =>
        LET fs == financialSummary
            n == Len(statements)
        IN  /\ fs # null
            /\ IsGrowthOf(fs.revenue_growth, statements, "revenue")
            /\ IsGrowthOf(fs.profit_growth, statements, "net_income")
            /\ ShowsGrowth(SummaryView.revenue_growth, fs.revenue_growth)
            /\ ShowsGrowth(SummaryView.profit_growth, fs.profit_growth)
            /\ (n = 2 /\ statements[1].revenue = Num(100) /\ statements[2].revenue = Num(150))
                  => fs.revenue_growth = Num(50)
            /\ (n = 2 /\ statements[1].revenue = Num(0) /\ statements[2].revenue = Num(150))
                  => fs.revenue_growth = null

\* revenue unchanged from one year to the next: growth 0, shown as "+0%"
C7_Witness ==
    /\ pc = "done"
    /\ Len(statements) = 2
    /\ financialSummary # null
    /\ financialSummary.revenue_growth = Num(0)
    /\ SummaryView.revenue_growth.prefix = "+"
    /\ financialSummary.profit_growth = null

-----------------------------------------------------------------------------
(* AnalysisPage: loadData, checkWatchlistStatus, toggleWatchlist and the    *)
(* displayed price change.  The user is signed in; session tells whether    *)
(* useAuth also has a session.                                              *)

\* a rejected promise
rejected == [t |-> "rejected"]

\* promise.catch(() => null)
catchNull(r) == IF r = rejected THEN null ELSE r

\* Promise.all: rejected as soon as one of the promises is
PromiseAll(rs) == IF \E i \in 1..Len(rs) : rs[i] = rejected THEN rejected ELSE rs

\* the responses of api.getCompany and api.getLatestPrice
CompanyResponses == {[code |-> "7203"]}
LatestPriceResponses == {[close_price |-> Num(121)], [close_price |-> Num(0)]}

\* the responses of api.getStockPrices, one of them without stock_prices
StockPricesResponses ==
    LET up == PointKindList[1]
        missing == PointKindList[3]
        zero == PointKindList[6]
    IN  {[code |-> "7203"]} \cup
        {[code |-> "7203", stock_prices |-> Dated(k)] :
            k \in {<<>>, <<up>>, <<up, up>>, <<missing, up>>, <<zero, up>>,
                   <<up, missing, up>>}}

\* the message setError is given
loadError == [t |-> "string", s |-> "data could not be loaded"]

\* the statements the backend holds for the company: none, or one year
PageStatements ==
    {<<>>, WithYears(<<[revenue |-> Num(100), net_income |-> Num(-50)]>>)}

\* the financial state of the page
financialState == <<financialSummary, latestFiscalYear, financialDataPoints>>

\* most clicks on the button that calls fetchFinancialData
MaxFetches == 1

InitPage ==
    /\ ChartIdle /\ MAIdle /\ FormatIdle /\ SearchIdle
    /\ pc = "done"
    /\ statements \in PageStatements
    /\ financialSummary = null
    /\ latestFiscalYear = null
    /\ financialDataPoints = 0
    /\ page = [company |-> null, latestPrice |-> null, isLoading |-> TRUE,
               error |-> null, isInWatchlist |-> FALSE, watchlistLoading |-> FALSE,
               isFetchingFinancial |-> FALSE, fetchFinancialMessage |-> null]
    /\ session \in BOOLEAN
    /\ loadPc = [mounted |-> FALSE, runs |-> <<>>]
    /\ togglePc = [inflight |-> <<>>, last |-> none]
    /\ checkPc = "idle"
    /\ outcome = [company |-> none, latestPrice |-> none,
                  stockPrices |-> none, financial |-> none]
    /\ fetchPc = [pc |-> "idle", clicks |-> 0]
    /\ reloads = 0

\* how a request ended, for the records kept in loadPc and outcome
ended(r) == IF r = rejected THEN "rejected" ELSE "ok"

\* a sequence without its i-th element
without(seq, i) == [k \in 1..(Len(seq) - 1) |-> IF k < i THEN seq[k] ELSE seq[k + 1]]

\* loadData is called by the effect on [code] once the page is mounted and
\* by each reload timer of fetchFinancialData; it runs up to its first await
loadData ==
    /\ \/ /\ ~loadPc.mounted
          /\ UNCHANGED reloads
       \/ /\ loadPc.mounted
          /\ reloads > 0
          /\ reloads' = reloads - 1
    /\ page' = [page EXCEPT !.isLoading = TRUE, !.error = null]
    /\ loadPc' = [mounted |-> TRUE,
                  runs |-> Append(loadPc.runs,
                                  [pc |-> "awaitCompany", latestPrice |-> none,
                                   stockPrices |-> none])]
    /\ UNCHANGED <<session, togglePc, checkPc, outcome, fetchPc>>
    /\ UNCHANGED <<chartVars, maVars, fmtVars, finVars, pc, searchVars>>

\* Promise.all([api.getCompany(code), api.getLatestPrice(code).catch(..)])
\* of one run has settled: either the two setters run and the run goes on
\* to api.getStockPrices, or the outer catch and the finally run
loadData_companyAndPrice ==
    /\ \E i \in 1..Len(loadPc.runs) :
          /\ loadPc.runs[i].pc = "awaitCompany"
          /\ \E c \in CompanyResponses \cup {rejected},
                l \in LatestPriceResponses \cup {rejected} :
                LET settled == PromiseAll(<<c, catchNull(l)>>)
                IN  IF settled = rejected
                    THEN /\ page' = [page EXCEPT !.error = loadError,
                                                 !.isLoading = FALSE]
                         /\ loadPc' = [loadPc EXCEPT !.runs = without(@, i)]
                         /\ outcome' = [company |-> ended(c), latestPrice |-> ended(l),
                                        stockPrices |-> none, financial |-> none]
                    ELSE /\ page' = [page EXCEPT !.company = settled[1],
                                                 !.latestPrice = settled[2]]
                         /\ loadPc' = [loadPc EXCEPT !.runs[i] =
                                          [pc |-> "awaitStockPrices",
                                           latestPrice |-> ended(l),
                                           stockPrices |-> none]]
                         /\ UNCHANGED outcome
    /\ UNCHANGED <<session, togglePc, checkPc, fetchPc, reloads>>
    /\ UNCHANGED <<chartVars, maVars, fmtVars, finVars, pc, searchVars>>

\* api.getStockPrices of one run has settled: the try sets
\* stock_prices || [] (an array is truthy, a missing field is undefined), its
\* catch sets []
loadData_stockPrices ==
    /\ \E i \in 1..Len(loadPc.runs) :
          /\ loadPc.runs[i].pc = "awaitStockPrices"
          /\ \E r \in StockPricesResponses \cup {rejected} :
                /\ stockPrices' = IF r = rejected THEN <<>>
                                  ELSE IF "stock_prices" \in DOMAIN r
                                       THEN r.stock_prices
                                  ELSE <<>>
                /\ loadPc' = [loadPc EXCEPT !.runs[i].pc = "awaitFinancial",
                                            !.runs[i].stockPrices = ended(r)]
    /\ UNCHANGED <<page, session, togglePc, checkPc, outcome, fetchPc, reloads>>
    /\ UNCHANGED <<chartType, showMA, showVolume, maVars, fmtVars, finVars, pc,
                   searchVars>>

\* api.getFinancialSummary of one run has settled: the try sets the
\* financial state, its catch only logs; then the finally runs
loadData_financial ==
    /\ \E i \in 1..Len(loadPc.runs) :
          /\ loadPc.runs[i].pc = "awaitFinancial"
          /\ \E r \in {computeFinancialSummary(statements), rejected} :
                /\ IF r = rejected
                   THEN UNCHANGED <<financialSummary, latestFiscalYear,
                                    financialDataPoints>>
                   ELSE /\ financialSummary' = r.summary
                        /\ latestFiscalYear' = r.latest_fiscal_year
                        /\ financialDataPoints' = r.data_points
                /\ outcome' = [company |-> "ok",
                               latestPrice |-> loadPc.runs[i].latestPrice,
                               stockPrices |-> loadPc.runs[i].stockPrices,
                               financial |-> ended(r)]
          /\ loadPc' = [loadPc EXCEPT !.runs = without(@, i)]
    /\ page' = [page EXCEPT !.isLoading = FALSE]
    /\ UNCHANGED <<statements, session, togglePc, checkPc, fetchPc, reloads>>
    /\ UNCHANGED <<chartVars, maVars, fmtVars, pc, searchVars>>

\* the page is past its two early returns and shows the company
Rendered == ~page.isLoading /\ page.error = null /\ page.company # null

\* the button that calls fetchFinancialData is rendered where the financial
\* summary would be, and disabled while isFetchingFinancial; fetchFinancialData
\* runs up to its fetch
fetchFinancialData ==
    /\ Rendered
    /\ ~Truthy(financialSummary)
    /\ ~page.isFetchingFinancial
    /\ fetchPc.clicks < MaxFetches
    /\ page' = [page EXCEPT !.isFetchingFinancial = TRUE,
                            !.fetchFinancialMessage = null]
    /\ fetchPc' = [pc |-> "await", clicks |-> fetchPc.clicks + 1]
    /\ UNCHANGED <<session, loadPc, togglePc, checkPc, outcome, reloads>>
    /\ UNCHANGED <<chartVars, maVars, fmtVars, finVars, pc, searchVars>>

\* the fetch of fetchFinancialData has settled: an ok response sets the
\* message and a timer that calls loadData after 10 s, by when the backend
\* may hold statements; anything else sets the failure message; then the
\* finally runs
fetchFinancialData_settled ==
    /\ fetchPc.pc = "await"
    /\ \E r \in {"ok", "notOk", "thrown"} :
          /\ page' = [page EXCEPT
                 !.fetchFinancialMessage =
                     [t |-> "string",
                      s |-> IF r = "ok" THEN "fetch started" ELSE "fetch failed"],
                 !.isFetchingFinancial = FALSE]
          /\ reloads' = IF r = "ok" THEN reloads + 1 ELSE reloads
          /\ IF r = "ok" THEN statements' \in PageStatements
             ELSE UNCHANGED statements
    /\ fetchPc' = [fetchPc EXCEPT !.pc = "idle"]
    /\ UNCHANGED <<session, loadPc, togglePc, checkPc, outcome>>
    /\ UNCHANGED <<financialSummary, latestFiscalYear, financialDataPoints>>
    /\ UNCHANGED <<chartVars, maVars, fmtVars, pc, searchVars>>

\* the watchlist button takes a click: it is rendered and not disabled
buttonEnabled_noDisabled(p) == TRUE
buttonEnabled(p) == ~p.watchlistLoading

\* the effect on [session, code] calls checkWatchlistStatus when there is a
\* session; it runs up to its fetch
checkWatchlistStatus ==
    /\ session
    /\ checkPc = "idle"
    /\ checkPc' = "await"
    /\ UNCHANGED <<page, session, loadPc, togglePc, outcome, fetchPc, reloads>>
    /\ UNCHANGED <<chartVars, maVars, fmtVars, finVars, pc, searchVars>>

\* the fetch of checkWatchlistStatus has settled: an ok response sets
\* isInWatchlist to data.in_watchlist, anything else changes nothing
checkWatchlistStatus_settled ==
    /\ checkPc = "await"
    /\ \E r \in {"ok", "notOk", "thrown"}, in_watchlist \in BOOLEAN :
          page' = IF r = "ok" THEN [page EXCEPT !.isInWatchlist = in_watchlist]
                  ELSE page
    /\ checkPc' = "done"
    /\ UNCHANGED <<session, loadPc, togglePc, outcome, fetchPc, reloads>>
    /\ UNCHANGED <<chartVars, maVars, fmtVars, finVars, pc, searchVars>>

\* a click on the watchlist button: toggleWatchlist returns at once without
\* a session, else sets watchlistLoading and sends DELETE or POST
toggleWatchlist ==
    /\ Rendered
    /\ buttonEnabled(page)
    /\ IF ~session
       THEN /\ togglePc' = [togglePc EXCEPT !.last = "noSession"]
            /\ UNCHANGED page
       ELSE /\ page' = [page EXCEPT !.watchlistLoading = TRUE]
            /\ togglePc' = [togglePc EXCEPT !.inflight =
                   Append(@, IF page.isInWatchlist THEN "DELETE" ELSE "POST")]
    /\ UNCHANGED <<session, loadPc, checkPc, outcome, fetchPc, reloads>>
    /\ UNCHANGED <<chartVars, maVars, fmtVars, finVars, pc, searchVars>>

\* the fetch of toggleWatchlist has settled: an ok response sets
\* isInWatchlist, a response that is not ok and a thrown error are logged;
\* then the finally runs
toggleWatchlist_settled ==
    /\ togglePc.inflight # <<>>
    /\ \E r \in {"ok", "notOk", "thrown"} :
          /\ page' = [page EXCEPT
                 !.isInWatchlist = IF r = "ok" THEN Head(togglePc.inflight) = "POST"
                                   ELSE @,
                 !.watchlistLoading = FALSE]
          /\ togglePc' = [inflight |-> Tail(togglePc.inflight), last |-> r]
    /\ UNCHANGED <<session, loadPc, checkPc, outcome, fetchPc, reloads>>
    /\ UNCHANGED <<chartVars, maVars, fmtVars, finVars, pc, searchVars>>

NextPage ==
    \/ loadData
    \/ loadData_companyAndPrice
    \/ loadData_stockPrices
    \/ loadData_financial
    \/ checkWatchlistStatus
    \/ checkWatchlistStatus_settled
    \/ toggleWatchlist
    \/ toggleWatchlist_settled
    \/ fetchFinancialData
    \/ fetchFinancialData_settled

SpecPage == InitPage /\ [][NextPage]_vars

\* the price change in percent, computed once the page is rendered; the
\* first variant takes the last point for the previous one
priceChange_lastPoint(latestPrice, sp) ==
    IF ~Truthy(latestPrice) \/ Len(sp) < 2 THEN null
    ELSE LET prevPrice == sp[Len(sp)]
         IN  IF ~Truthy(prevPrice.close_price) THEN null
             ELSE Mul(Div(Sub(latestPrice.close_price, prevPrice.close_price),
                          prevPrice.close_price), Num(100))
priceChange(latestPrice, sp) ==
    IF ~Truthy(latestPrice) \/ Len(sp) < 2 THEN null
    ELSE LET prevPrice == sp[Len(sp) - 1]
         IN  IF ~Truthy(prevPrice.close_price) THEN null
             ELSE Mul(Div(Sub(latestPrice.close_price, prevPrice.close_price),
                          prevPrice.close_price), Num(100))

\* the page as rendered: the price change it shows
PageView == [priceChange |-> priceChange(page.latestPrice, stockPrices)]

\* C28: the step that ends a run of loadData leaves isLoading false and
\* error set exactly when the getCompany request of the run was rejected,
\* latestPrice null when its latest-price request was rejected, stockPrices
\* empty when its stock-price request was rejected, and the financial state
\* untouched when its financial-summary request was rejected
C28_LoadDataOutcomes ==
    [][ Len(loadPc'.runs) < Len(loadPc.runs) =>
           /\ ~page'.isLoading
           /\ (page'.error # null) <=> (outcome'.company = "rejected")
           /\ outcome'.latestPrice = "rejected" => page'.latestPrice = null
           /\ outcome'.stockPrices = "rejected" => stockPrices' = <<>>
           /\ outcome'.financial = "rejected" => financialState' = financialState
      ]_vars

\* C29: a click without a session changes nothing; with a session it sets
\* watchlistLoading, which stays true while the request is in flight and is
\* false once it has settled, however it settled; the response sets
\* isInWatchlist to false (after DELETE) or true (after POST) when it is ok
\* and leaves it alone otherwise; and the button, disabled while
\* watchlistLoading, never has two requests in flight
C29_ToggleWatchlist ==
    /\ [](/\ Len(togglePc.inflight) <= 1
          /\ page.watchlistLoading <=> (togglePc.inflight # <<>>))
    /\ [][ /\ (Len(togglePc'.inflight) > Len(togglePc.inflight)) =>
                 /\ ~page.watchlistLoading
                 /\ page'.watchlistLoading
                 /\ page'.isInWatchlist = page.isInWatchlist
                 /\ togglePc'.inflight =
                       <<IF page.isInWatchlist THEN "DELETE" ELSE "POST">>
           /\ (Len(togglePc'.inflight) < Len(togglePc.inflight)) =>
                 /\ ~page'.watchlistLoading
                 /\ page'.isInWatchlist =
                       IF togglePc'.last = "ok"
                       THEN Head(togglePc.inflight) = "POST"
                       ELSE page.isInWatchlist
           /\ (togglePc' # togglePc /\ togglePc'.inflight = togglePc.inflight) =>
                 /\ ~session
                 /\ page' = page
         ]_vars

\* a DELETE was answered ok: the company is off the watchlist and the
\* button is enabled again
C29_Witness ==
    /\ togglePc = [inflight |-> <<>>, last |-> "ok"]
    /\ checkPc = "done"
    /\ ~page.isInWatchlist
    /\ ~page.watchlistLoading
    /\ Rendered

\* C30: on the rendered page the price change is null when latestPrice is
\* missing, when there are fewer than two points, or when the close of the
\* second-to-last point is null or 0; otherwise it is the number p with
\* p * close = (latest close - close) * 100
C30_PriceChange ==
    Rendered =>
        LET p == PageView.priceChange
            n == Len(stockPrices)
        IN  IF page.latestPrice = null \/ n < 2 THEN p = null
            ELSE LET close == stockPrices[n - 1].close_price
                     latest == page.latestPrice.close_price
                 IN  IF close = null \/ close = Num(0) THEN p = null
                     ELSE /\ IsFinite(p)
                          /\ p.n * close.n * latest.d
                                = 100 * p.d * (latest.n * close.d - close.n * latest.d)

\* latest close 121 against a previous close of 110: +10 %
C30_Witness ==
    /\ Rendered
    /\ Len(stockPrices) = 2
    /\ page.latestPrice = [close_price |-> Num(121)]
    /\ stockPrices[1].close_price = Num(110)
    /\ PageView.priceChange = Num(10)
-----------------------------------------------------------------------------
(* CompanySearch.  Time is counted in milliseconds.  A timer is            *)
(* [query, left]: the query its callback closes over and the time left      *)
(* until it is due.  A request is [id, query]: one call of                  *)
(* api.searchCompanies awaiting its response.                               *)

\* the delay of the debounce timer
debounceDelay == 300

\* most requests issued in one behaviour
MaxSearches == 2

\* what the user types: two queries and two blank values
Queries == {"", " ", "7203", "toyota"}

\* the lengths of time that pass in one step
Elapsed == {100, 200, 300}

\* String.prototype.trim
trim(q) == IF q = " " THEN "" ELSE q

\* data.companies of the response to a query
companiesFor(q) == <<[matches |-> q]>>

\* the clean-up of the effect leaving the timer pending
clearTimeout_keepsTimer(ts, q) == ts

\* clearTimeout(timer) in the clean-up of the effect that ran for query q
clearTimeout(ts, q) == {t \in ts : t.query # q}

\* setTimeout(() => searchCompanies(query), 300)
setTimeout(ts, q) == ts \cup {[query |-> q, left |-> debounceDelay]}

\* the component after its first render and the first run of its effect
InitSearch ==
    /\ ChartIdle /\ MAIdle /\ FormatIdle /\ FinancialIdle /\ PageIdle
    /\ pc = "done"
    /\ search = [query |-> "", results |-> <<>>, isLoading |-> FALSE,
                 showResults |-> FALSE, mounted |-> TRUE]
    /\ timers = setTimeout({}, "")
    /\ requests = {}
    /\ issued = 0
    /\ unchangedFor = 0
    /\ debounced = none

\* the input's onChange with a new value, and the effect that re-runs
onChange ==
    /\ search.mounted
    /\ issued < MaxSearches
    /\ \E v \in Queries \ {search.query} :
          /\ search' = [search EXCEPT !.query = v, !.showResults = TRUE]
          /\ timers' = setTimeout(clearTimeout(timers, search.query), v)
    /\ unchangedFor' = 0
    /\ UNCHANGED <<requests, issued, debounced>>
    /\ UNCHANGED <<chartVars, maVars, fmtVars, finVars, pc, pageVars>>

onFocus ==
    /\ search.mounted
    /\ search' = [search EXCEPT !.showResults = TRUE]
    /\ UNCHANGED <<timers, requests, issued, unchangedFor, debounced>>
    /\ UNCHANGED <<chartVars, maVars, fmtVars, finVars, pc, pageVars>>

\* a click on the overlay behind the dropdown
closeResults ==
    /\ search.mounted
    /\ search.showResults
    /\ search' = [search EXCEPT !.showResults = FALSE]
    /\ UNCHANGED <<timers, requests, issued, unchangedFor, debounced>>
    /\ UNCHANGED <<chartVars, maVars, fmtVars, finVars, pc, pageVars>>

\* time passes, no further than to the moment the next timer is due
elapse ==
    /\ timers # {} \/ unchangedFor < debounceDelay
    /\ \E d \in Elapsed :
          /\ \A t \in timers : d <= t.left
          /\ timers' = {[query |-> t.query, left |-> t.left - d] : t \in timers}
          /\ unchangedFor' = Min2(unchangedFor + d, debounceDelay)
    /\ UNCHANGED <<search, requests, issued, debounced>>
    /\ UNCHANGED <<chartVars, maVars, fmtVars, finVars, pc, pageVars>>

\* a timer is due: searchCompanies(query) runs up to its await
searchCompanies ==
    /\ \E t \in timers :
          /\ t.left = 0
          /\ timers' = timers \ {t}
          /\ debounced' = t.query
          /\ IF trim(t.query) = ""
             THEN /\ search' = [search EXCEPT !.results = <<>>]
                  /\ UNCHANGED <<requests, issued>>
             ELSE /\ search' = [search EXCEPT !.isLoading = TRUE]
                  /\ requests' = requests \cup {[id |-> issued + 1, query |-> t.query]}
                  /\ issued' = issued + 1
    /\ UNCHANGED unchangedFor
    /\ UNCHANGED <<chartVars, maVars, fmtVars, finVars, pc, pageVars>>

\* a request settles, resolved or rejected: searchCompanies runs from its
\* await to its end; a state update of an unmounted component is dropped
searchCompanies_settled ==
    /\ \E r \in requests, ok \in BOOLEAN :
          /\ requests' = requests \ {r}
          /\ search' = IF search.mounted
                       THEN [search EXCEPT
                                !.results = IF ok THEN companiesFor(r.query) ELSE <<>>,
                                !.isLoading = FALSE]
                       ELSE search
    /\ UNCHANGED <<timers, issued, unchangedFor, debounced>>
    /\ UNCHANGED <<chartVars, maVars, fmtVars, finVars, pc, pageVars>>

\* a click on a company of the dropdown: the query is cleared and the router
\* leaves the page, which unmounts the component and clears its timer
handleSelect ==
    /\ search.mounted
    /\ search.showResults /\ (trim(search.query) # "" \/ search.isLoading)
    /\ ~search.isLoading /\ search.results # <<>>
    /\ search' = [search EXCEPT !.showResults = FALSE, !.query = "", !.mounted = FALSE]
    /\ timers' = {}
    /\ unchangedFor' = 0
    /\ UNCHANGED <<requests, issued, debounced>>
    /\ UNCHANGED <<chartVars, maVars, fmtVars, finVars, pc, pageVars>>

NextSearch ==
    \/ onChange \/ onFocus \/ closeResults \/ elapse
    \/ searchCompanies \/ searchCompanies_settled \/ handleSelect

SpecSearch == InitSearch /\ [][NextSearch]_vars

-----------------------------------------------------------------------------
(* Claims about CompanySearch *)

\* C26 (as claimed): once no request is in flight, the results are those of
\* the query searchCompanies was last called with (none for a blank query or
\* a failed request); the response to an older query never replaces them.
C26_LatestQueryWins ==
    (search.mounted /\ requests = {} /\ debounced # none) =>
        IF trim(debounced) = "" THEN search.results = <<>>
        ELSE search.results \in {companiesFor(debounced), <<>>}


\* this step is the callback of a due timer
TimerFired ==
    \E t \in timers :
        /\ t.left = 0
        /\ timers' = timers \ {t}
        /\ unchangedFor' = unchangedFor
        /\ search'.query = search.query
        /\ search'.mounted

\* C27: a request is issued only for the query as it stands after 300 ms
\* without a change; every change of the query cancels the pending timer and
\* starts a new one, so changes less than 300 ms apart issue at most one
\* request, for the last value; a blank query issues no request and clears
\* the results.
C27_Debounce ==
    /\ [](Cardinality(timers) <= 1)
    /\ [][/\ requests' \ requests # {} =>
                /\ unchangedFor = debounceDelay
                /\ requests' \ requests = {[id |-> issued + 1, query |-> search.query]}
                /\ trim(search.query) # ""
                /\ timers' = {}
          /\ (search'.query # search.query /\ search'.mounted) =>
                /\ timers' = {[query |-> search'.query, left |-> debounceDelay]}
                /\ requests' = requests
          /\ (TimerFired /\ trim(search.query) = "") =>
                /\ requests' = requests
                /\ search'.results = <<>>]_vars

\* the one request issued so far, for the query that stood for 300 ms
C27_Witness ==
    /\ search.query = "toyota"
    /\ issued = 1
    /\ requests = {[id |-> 1, query |-> "toyota"]}
    /\ debounced = "toyota"
    /\ search.isLoading

====
